---- MODULE Spec2Model ----
(***************************************************************************)
(* Model of the vending machine web application (app.py): the session     *)
(* ledger (insert_money, purchase, return_change), the product table, the *)
(* transaction log and the change calculator.                             *)
(*                                                                         *)
(* Money is held in cents (1 == 0.01).  Python numbers keep their type    *)
(* (int or float) because str() formats the two differently and the       *)
(* denomination counters are keyed by str().                              *)
(***************************************************************************)
EXTENDS Integers, Sequences, FiniteSets, TLC

VARIABLES session, products, log, response, requests,
          cc_amount, cc_result, cc_pc,
          \* the purchase request each session has in progress, when the
          \* steps of purchase are taken one at a time
          inflight,
          \* history: the sum of the amounts each session inserted since its
          \* last reset
          inserted_since_reset

vars == <<session, products, log, response, requests,
          cc_amount, cc_result, cc_pc, inflight, inserted_since_reset>>

(***************************************************************************)
(* Bounds of the model.                                                    *)
(***************************************************************************)
\* largest amount (cents) handed to calculate_change on its own
MaxAmount == 12000
\* number of POST requests served in one behaviour
MaxRequests == 4

(***************************************************************************)
(* Python values.                                                          *)
(***************************************************************************)
PyInt(c) == [type |-> "int", cents |-> c]
PyFloat(c) == [type |-> "float", cents |-> c]

\* float(x): the same value as a float
float(x) == PyFloat(x.cents)

Abs(n) == IF n < 0 THEN -n ELSE n

\* the digits str() prints after the decimal point of a float: the shortest
\* form, at least one digit ("50.0", "0.5", "0.25", "0.05")
FracDigits(c) ==
    LET r == c % 100
    IN  IF r % 10 = 0 THEN <<r \div 10>> ELSE <<r \div 10, r % 10>>

\* str(x): an int prints without a decimal point, a float always with one
str(x) ==
    IF x.type = "int"
    THEN [neg |-> x.cents < 0, whole |-> Abs(x.cents) \div 100, frac |-> <<>>]
    ELSE [neg |-> x.cents < 0, whole |-> Abs(x.cents) \div 100,
          frac |-> FracDigits(Abs(x.cents))]

\* float(k) of a printed number k: its value in cents
FracValue(frac) ==
    IF Len(frac) = 0 THEN 0
    ELSE IF Len(frac) = 1 THEN 10 * frac[1]
    ELSE 10 * frac[1] + frac[2]

float_of_str(k) ==
    PyFloat((IF k.neg THEN -1 ELSE 1) * (100 * k.whole + FracValue(k.frac)))

(***************************************************************************)
(* Denominations.                                                          *)
(***************************************************************************)
NOTES == <<PyInt(10000), PyInt(5000), PyInt(2500), PyInt(2000)>>

COINS == <<PyInt(1000), PyInt(500), PyInt(100),
           PyFloat(50), PyFloat(25), PyFloat(10), PyFloat(5)>>

Range(seq) == {seq[i] : i \in 1..Len(seq)}

\* sorted(seq, reverse=True): insertion of each element before the first
\* smaller one
RECURSIVE InsertDesc(_, _)
InsertDesc(x, sorted) ==
    IF sorted = <<>> THEN <<x>>
    ELSE IF x.cents > sorted[1].cents THEN <<x>> \o sorted
    ELSE <<sorted[1]>> \o InsertDesc(x, Tail(sorted))

\* sorted(seq): the order a missing reverse=True would give
RECURSIVE InsertAsc(_, _)
InsertAsc(x, sorted) ==
    IF sorted = <<>> THEN <<x>>
    ELSE IF x.cents < sorted[1].cents THEN <<x>> \o sorted
    ELSE <<sorted[1]>> \o InsertAsc(x, Tail(sorted))

RECURSIVE sorted_ascending(_)
sorted_ascending(seq) ==
    IF seq = <<>> THEN <<>> ELSE InsertAsc(seq[1], sorted_ascending(Tail(seq)))

RECURSIVE sorted_reverse(_)
sorted_reverse(seq) ==
    IF seq = <<>> THEN <<>> ELSE InsertDesc(seq[1], sorted_reverse(Tail(seq)))

(***************************************************************************)
(* calculate_change                                                        *)
(***************************************************************************)
\* the mapping with no key
EmptyDict == [d \in {} |-> 0]

\* the test `remaining >= denom`
takes_always(remaining, denom) == remaining >= 0
takes(remaining, denom) == remaining >= denom

\* int(remaining / denom)
count_rounded(remaining, denom) == (2 * remaining + denom) \div (2 * denom)
count_of(remaining, denom) == remaining \div denom

\* round(remaining - count * denom, 2): a whole number of cents stays as it is
remaining_after(remaining, count, denom) == remaining - (count * denom)

RECURSIVE change_loop(_, _, _, _)
change_loop(denoms, i, remaining, change_breakdown) ==
    IF i > Len(denoms) THEN change_breakdown
    ELSE LET denom == denoms[i].cents
         IN  IF takes(remaining, denom)
             THEN LET count == count_of(remaining, denom)
                  IN  change_loop(denoms, i + 1,
                                  remaining_after(remaining, count, denom),
                                  (denom :> count) @@ change_breakdown)
             ELSE change_loop(denoms, i + 1, remaining, change_breakdown)

calculate_change(amount) ==
    change_loop(sorted_reverse(NOTES \o COINS), 1, amount, EmptyDict)

(***************************************************************************)
(* The product table after create_tables (prices in cents).                *)
(***************************************************************************)
Product(name, type, price, quantity) ==
    [name |-> name, type |-> type, price |-> price, quantity |-> quantity]

sample_products ==
    (1 :> Product("sando", "cake", 1500, 10)) @@
    (2 :> Product("lays", "cake", 2000, 8)) @@
    (3 :> Product("m&m", "cake", 3000, 5)) @@
    (4 :> Product("Coca Cola", "drink", 5000, 15)) @@
    (5 :> Product("Sprite", "drink", 4500, 12)) @@
    (6 :> Product("water", "drink", 2500, 10))

(***************************************************************************)
(* The session: absent until the first visit of the index page.            *)
(***************************************************************************)
NoSession == [present |-> FALSE]

\* {str(denom): 0 for denom in NOTES + COINS}
zero_denominations == [k \in {str(d) : d \in Range(NOTES \o COINS)} |-> 0]

new_session ==
    [present |-> TRUE,
     inserted_money |-> 0,
     denominations_inserted |-> zero_denominations,
     current_transaction |-> <<>>]

\* 'inserted_money' in session
has_session(s) == session[s].present

(***************************************************************************)
(* The response of a request, with the request it answers.                 *)
(***************************************************************************)
Response(op, s, code, error) ==
    [op |-> op, sid |-> s, code |-> code, error |-> error,
     amount |-> 0, product_id |-> 0, quantity |-> 0,
     inserted_money |-> 0, remaining_quantity |-> 0,
     change_breakdown |-> EmptyDict]

\* no purchase request of the session is in progress
NoRequest == [pc |-> "none"]

\* a form field: text that int() accepts, with its value, or rejects
Digits(n) == [numeric |-> TRUE, value |-> n]
BadText == [numeric |-> FALSE, value |-> 0]

(***************************************************************************)
(* GET /                                                                   *)
(***************************************************************************)
index(s) ==
    /\ session' = [session EXCEPT ![s] =
                      IF has_session(s) THEN session[s] ELSE new_session]
    /\ response' = [Response("index", s, 200, "") EXCEPT
                      !.inserted_money = session'[s].inserted_money]
    /\ inserted_since_reset' = [inserted_since_reset EXCEPT ![s] =
                                   IF has_session(s) THEN @ ELSE 0]
    /\ UNCHANGED <<products, log, requests, cc_amount, cc_result, cc_pc,
                   inflight>>

(***************************************************************************)
(* POST /insert_money                                                      *)
(***************************************************************************)
\* denom_key = str(amount), amount = float(request.form['amount'])
denom_key(amount) == str(float(amount))

\* session['inserted_money'] += amount
money_ignoring_amount(money, amount) == money
money_after_insert(money, amount) == money + amount.cents

\* if denom_key in denominations_inserted: denominations_inserted[denom_key] += 1
counted_insert(denominations, key) ==
    IF key \in DOMAIN denominations
    THEN [denominations EXCEPT ![key] = @ + 1]
    ELSE denominations

insert_money(s, amount) ==
    /\ requests < MaxRequests
    /\ requests' = requests + 1
    /\ IF ~has_session(s)
       THEN \* KeyError at session['inserted_money']
            /\ response' = [Response("insert_money", s, 500, "KeyError")
                               EXCEPT !.amount = amount.cents]
            /\ UNCHANGED <<session, inserted_since_reset>>
       ELSE /\ inserted_since_reset' =
                  [inserted_since_reset EXCEPT ![s] = @ + amount.cents]
            /\ session' = [session EXCEPT
                  ![s].inserted_money = money_after_insert(@, amount),
                  ![s].denominations_inserted =
                        counted_insert(@, denom_key(amount))]
            /\ response' = [Response("insert_money", s, 200, "") EXCEPT
                  !.amount = amount.cents,
                  !.inserted_money = session'[s].inserted_money]
    /\ UNCHANGED <<products, log, cc_amount, cc_result, cc_pc, inflight>>

(***************************************************************************)
(* POST /purchase                                                          *)
(***************************************************************************)
\* Product.query.get(product_id) found a row
product_exists(product_id) == product_id \in DOMAIN products

\* product.quantity < quantity
insufficient_quantity_off_by_one(product, quantity) ==
    product.quantity + 1 < quantity
insufficient_quantity_when_empty(product, quantity) ==
    product.quantity <= 0 /\ product.quantity < quantity
insufficient_quantity(product, quantity) == product.quantity < quantity

\* total_cost = product.price * quantity
total_cost_of(product, quantity) == product.price * quantity

\* session['inserted_money'] < total_cost
insufficient_funds_ignoring_cost(money, total_cost) == money < 0
insufficient_funds(money, total_cost) == money < total_cost

\* product.quantity -= quantity
quantity_after(product, quantity) == product.quantity - quantity

\* session['inserted_money'] -= total_cost
money_after_purchase(money, total_cost) == money - total_cost

\* the purchase line; without the quantity in its total
purchase_item_unit_total(product_id, product, quantity) ==
    [product_id |-> product_id,
     name |-> product.name,
     quantity |-> quantity,
     price |-> product.price,
     total |-> product.price]
purchase_item(product_id, product, quantity) ==
    [product_id |-> product_id,
     name |-> product.name,
     quantity |-> quantity,
     price |-> product.price,
     total |-> total_cost_of(product, quantity)]

purchase(s, product_id, quantity_text) ==
    /\ requests < MaxRequests
    /\ requests' = requests + 1
    /\ UNCHANGED <<log, cc_amount, cc_result, cc_pc, inflight,
                   inserted_since_reset>>
    /\ IF ~quantity_text.numeric
       THEN \* ValueError from int()
            /\ response' = [Response("purchase", s, 400, "ValueError")
                               EXCEPT !.product_id = product_id]
            /\ UNCHANGED <<session, products>>
       ELSE
       LET quantity == quantity_text.value
           answer(code, error) ==
               [Response("purchase", s, code, error) EXCEPT
                   !.product_id = product_id, !.quantity = quantity]
       IN
       IF ~product_exists(product_id)
       THEN /\ response' = answer(400, "InvalidProduct")
            /\ UNCHANGED <<session, products>>
       ELSE
       LET product == products[product_id]
           total_cost == total_cost_of(product, quantity)
       IN
       IF insufficient_quantity(product, quantity)
       THEN /\ response' = answer(400, "InsufficientStock")
            /\ UNCHANGED <<session, products>>
       ELSE IF ~has_session(s)
       THEN \* KeyError at session['inserted_money']
            /\ response' = answer(500, "KeyError")
            /\ UNCHANGED <<session, products>>
       ELSE IF insufficient_funds(session[s].inserted_money, total_cost)
       THEN /\ response' = answer(400, "InsufficientFunds")
            /\ UNCHANGED <<session, products>>
       ELSE /\ products' = [products EXCEPT ![product_id].quantity =
                                quantity_after(product, quantity)]
            /\ session' = [session EXCEPT
                  ![s].inserted_money = money_after_purchase(@, total_cost),
                  ![s].current_transaction =
                      Append(@, purchase_item(product_id, product, quantity))]
            /\ response' = [answer(200, "") EXCEPT
                  !.inserted_money = session'[s].inserted_money,
                  !.remaining_quantity = products'[product_id].quantity]

(***************************************************************************)
(* POST /purchase, one step at a time: requests of different sessions run  *)
(* in different threads or workers, and each holds the Product row it read *)
(* until its commit writes the quantity it computed from that row.         *)
(***************************************************************************)
\* the session has no request in progress
is_idle(s) == inflight[s].pc = "none"

\* lines 102-110: parse the form and read the product
purchase_read(s, product_id, quantity_text) ==
    /\ is_idle(s)
    /\ requests < MaxRequests
    /\ requests' = requests + 1
    /\ UNCHANGED <<session, products, log, cc_amount, cc_result, cc_pc,
                   inserted_since_reset>>
    /\ IF ~quantity_text.numeric
       THEN /\ response' = [Response("purchase", s, 400, "ValueError")
                               EXCEPT !.product_id = product_id]
            /\ UNCHANGED inflight
       ELSE IF ~product_exists(product_id)
       THEN /\ response' = [Response("purchase", s, 400, "InvalidProduct")
                               EXCEPT !.product_id = product_id,
                                      !.quantity = quantity_text.value]
            /\ UNCHANGED inflight
       ELSE /\ inflight' = [inflight EXCEPT ![s] =
                                [pc |-> "read",
                                 product_id |-> product_id,
                                 quantity |-> quantity_text.value,
                                 product |-> products[product_id]]]
            /\ UNCHANGED response

\* lines 112-118: the stock and the funds tests, on the row that was read
purchase_check(s) ==
    /\ inflight[s].pc = "read"
    /\ UNCHANGED <<session, products, log, requests, cc_amount, cc_result,
                   cc_pc, inserted_since_reset>>
    /\ LET product_id == inflight[s].product_id
           quantity == inflight[s].quantity
           product == inflight[s].product
           answer(code, error) ==
               [Response("purchase", s, code, error) EXCEPT
                   !.product_id = product_id, !.quantity = quantity]
       IN  IF insufficient_quantity(product, quantity)
           THEN /\ response' = answer(400, "InsufficientStock")
                /\ inflight' = [inflight EXCEPT ![s] = NoRequest]
           ELSE IF ~has_session(s)
           THEN /\ response' = answer(500, "KeyError")
                /\ inflight' = [inflight EXCEPT ![s] = NoRequest]
           ELSE IF insufficient_funds(session[s].inserted_money,
                                      total_cost_of(product, quantity))
           THEN /\ response' = answer(400, "InsufficientFunds")
                /\ inflight' = [inflight EXCEPT ![s] = NoRequest]
           ELSE /\ inflight' = [inflight EXCEPT ![s].pc = "checked"]
                /\ UNCHANGED response

\* lines 120-141: the decrement of the row that was read, the session
\* update, and the commit that stores the decremented quantity
purchase_write(s) ==
    /\ inflight[s].pc = "checked"
    /\ UNCHANGED <<log, requests, cc_amount, cc_result, cc_pc,
                   inserted_since_reset>>
    /\ LET product_id == inflight[s].product_id
           quantity == inflight[s].quantity
           product == inflight[s].product
           total_cost == total_cost_of(product, quantity)
       IN  /\ products' = [products EXCEPT ![product_id].quantity =
                               quantity_after(product, quantity)]
           /\ session' = [session EXCEPT
                 ![s].inserted_money = money_after_purchase(@, total_cost),
                 ![s].current_transaction =
                     Append(@, purchase_item(product_id, product, quantity))]
           /\ response' = [Response("purchase", s, 200, "") EXCEPT
                 !.product_id = product_id, !.quantity = quantity,
                 !.inserted_money = session'[s].inserted_money,
                 !.remaining_quantity = products'[product_id].quantity]
           /\ inflight' = [inflight EXCEPT ![s] = NoRequest]

(***************************************************************************)
(* log_transaction                                                         *)
(***************************************************************************)
Restrict(f, S) == [k \in S |-> f[k]]

\* sum(float(denom) * count for denom, count in denominations.items())
RECURSIVE sum_denominations(_, _)
sum_denominations(denominations, keys) ==
    IF keys = {} THEN 0
    ELSE LET k == CHOOSE x \in keys : TRUE
         IN  float_of_str(k).cents * denominations[k]
             + sum_denominations(denominations, keys \ {k})

total_inserted_of(denominations) ==
    sum_denominations(denominations, DOMAIN denominations)

\* ", ".join(f"{item['quantity']}x {item['name']}" ...)
products_purchased_of(current_transaction) ==
    [i \in 1..Len(current_transaction) |->
        <<current_transaction[i].quantity, current_transaction[i].name>>]

transaction_of(s, change_breakdown) ==
    LET denominations == session[s].denominations_inserted
    IN  [id |-> Len(log) + 1,
         amount_inserted_notes |->
             Restrict(denominations,
                      {k \in DOMAIN denominations :
                          float_of_str(k).cents >= 100 /\ denominations[k] > 0}),
         amount_inserted_coins |->
             Restrict(denominations,
                      {k \in DOMAIN denominations :
                          float_of_str(k).cents < 100 /\ denominations[k] > 0}),
         change_returned_notes |->
             Restrict(change_breakdown,
                      {k \in DOMAIN change_breakdown :
                          k >= 100 /\ change_breakdown[k] > 0}),
         change_returned_coins |->
             Restrict(change_breakdown,
                      {k \in DOMAIN change_breakdown :
                          k < 100 /\ change_breakdown[k] > 0}),
         total_amount |-> total_inserted_of(denominations),
         change_amount |-> session[s].inserted_money,
         products_purchased |->
             products_purchased_of(session[s].current_transaction)]

\* db.session.add(transaction); db.session.commit()
log_transaction_overwriting(s, change_breakdown) ==
    <<transaction_of(s, change_breakdown)>>
log_transaction(s, change_breakdown) ==
    Append(log, transaction_of(s, change_breakdown))

(***************************************************************************)
(* POST /return_change                                                     *)
(***************************************************************************)
\* the session after either branch of return_change
session_kept_money(old) == [new_session EXCEPT !.inserted_money = old.inserted_money]
session_after_return(old) == new_session

\* the session store after the reset: the session is the client's own
reset_every_session(s) ==
    [t \in DOMAIN session |->
        IF session[t].present THEN session_after_return(session[t])
        ELSE session[t]]
reset_session(s) ==
    [session EXCEPT ![s] = session_after_return(session[s])]

\* if session['inserted_money'] > 0
has_change(money) == money > 0

\* if session['current_transaction']
has_purchases_never(current_transaction) == FALSE
has_purchases(current_transaction) == current_transaction # <<>>

return_change(s) ==
    /\ requests < MaxRequests
    /\ requests' = requests + 1
    /\ UNCHANGED <<products, cc_amount, cc_result, cc_pc, inflight>>
    /\ IF ~has_session(s)
       THEN \* KeyError at session['inserted_money']
            /\ response' = Response("return_change", s, 500, "KeyError")
            /\ UNCHANGED <<session, log, inserted_since_reset>>
       ELSE IF has_change(session[s].inserted_money)
       THEN LET change_breakdown == calculate_change(session[s].inserted_money)
            IN  /\ log' = log_transaction(s, change_breakdown)
                /\ session' = reset_session(s)
                /\ inserted_since_reset' =
                      [inserted_since_reset EXCEPT ![s] = 0]
                /\ response' = [Response("return_change", s, 200, "") EXCEPT
                                  !.amount = session[s].inserted_money,
                                  !.change_breakdown = change_breakdown]
       ELSE /\ log' = IF has_purchases(session[s].current_transaction)
                      THEN log_transaction(s, EmptyDict)
                      ELSE log
            /\ session' = reset_session(s)
            /\ inserted_since_reset' = [inserted_since_reset EXCEPT ![s] = 0]
            /\ response' = Response("return_change", s, 200, "info")

(***************************************************************************)
(* The admin routes.  Their answer is a redirect with a flash message; the  *)
(* message is held in the error field.                                     *)
(***************************************************************************)
\* float(request.form['price']) and int(request.form['quantity']) both pass
form_is_valid(price_text, quantity_text) ==
    price_text.numeric /\ quantity_text.numeric

\* POST /admin/update_product
update_product(product_id, name, product_type, price_text, quantity_text) ==
    /\ requests < MaxRequests
    /\ requests' = requests + 1
    /\ UNCHANGED <<session, log, cc_amount, cc_result, cc_pc, inflight,
                   inserted_since_reset>>
    /\ IF ~form_is_valid(price_text, quantity_text)
       THEN /\ response' = [Response("update_product", 0, 302, "ValueError")
                               EXCEPT !.product_id = product_id]
            /\ UNCHANGED products
       ELSE IF product_exists(product_id)
       THEN /\ products' = [products EXCEPT ![product_id] =
                                Product(name, product_type,
                                        price_text.value, quantity_text.value)]
            /\ response' = [Response("update_product", 0, 302, "") EXCEPT
                               !.product_id = product_id,
                               !.amount = price_text.value,
                               !.quantity = quantity_text.value]
       ELSE /\ response' = [Response("update_product", 0, 302, "NotFound")
                               EXCEPT !.product_id = product_id]
            /\ UNCHANGED products

\* new_id = (max_id or 0) + 1
next_product_id ==
    IF DOMAIN products = {} THEN 1
    ELSE 1 + CHOOSE m \in DOMAIN products : \A i \in DOMAIN products : i <= m

\* POST /admin/add_product
add_product(name, product_type, price_text, quantity_text) ==
    /\ requests < MaxRequests
    /\ requests' = requests + 1
    /\ UNCHANGED <<session, log, cc_amount, cc_result, cc_pc, inflight,
                   inserted_since_reset>>
    /\ IF ~form_is_valid(price_text, quantity_text)
       THEN /\ response' = Response("add_product", 0, 302, "ValueError")
            /\ UNCHANGED products
       ELSE LET new_id == next_product_id
            IN  /\ products' =
                      [i \in DOMAIN products \cup {new_id} |->
                          IF i = new_id
                          THEN Product(name, product_type,
                                       price_text.value, quantity_text.value)
                          ELSE products[i]]
                /\ response' = [Response("add_product", 0, 302, "") EXCEPT
                                  !.product_id = new_id,
                                  !.amount = price_text.value,
                                  !.quantity = quantity_text.value]

\* GET /admin/delete_product/<product_id>
delete_product(product_id) ==
    /\ requests < MaxRequests
    /\ requests' = requests + 1
    /\ UNCHANGED <<session, log, cc_amount, cc_result, cc_pc, inflight,
                   inserted_since_reset>>
    /\ IF product_exists(product_id)
       THEN /\ products' = [i \in DOMAIN products \ {product_id} |->
                                products[i]]
            /\ response' = [Response("delete_product", 0, 302, "") EXCEPT
                               !.product_id = product_id]
       ELSE /\ response' = [Response("delete_product", 0, 302, "NotFound")
                               EXCEPT !.product_id = product_id]
            /\ UNCHANGED products

(***************************************************************************)
(* The application: requests from the sessions, in any order.              *)
(***************************************************************************)
Sessions == {1}

\* the amounts the insert form is submitted with: every denomination, an
\* amount that is no denomination, and a negative amount
InsertAmounts ==
    Range(NOTES \o COINS) \cup {PyInt(300), PyInt(-2000)}

PurchaseIds == {1, 2, 7}

\* the quantities the purchase form is submitted with: negative, zero, one,
\* the whole stock of product 1, more than its stock, and no number
PurchaseQuantities ==
    {Digits(-1), Digits(0), Digits(1), Digits(10), Digits(11), BadText}

Init ==
    /\ session = [s \in Sessions |-> NoSession]
    /\ inflight = [s \in Sessions |-> NoRequest]
    /\ inserted_since_reset = [s \in Sessions |-> 0]
    /\ products = sample_products
    /\ log = <<>>
    /\ response = Response("none", 0, 0, "")
    /\ requests = 0
    /\ cc_amount = 0
    /\ cc_result = EmptyDict
    /\ cc_pc = "idle"

IndexRequest == \E s \in Sessions : index(s)

InsertMoneyRequest ==
    \E s \in Sessions : \E amount \in InsertAmounts : insert_money(s, amount)

PurchaseRequest ==
    \E s \in Sessions : \E product_id \in PurchaseIds :
        \E quantity \in PurchaseQuantities : purchase(s, product_id, quantity)

ReturnChangeRequest == \E s \in Sessions : return_change(s)

Next ==
    \/ IndexRequest
    \/ InsertMoneyRequest
    \/ PurchaseRequest
    \/ ReturnChangeRequest

Spec == Init /\ [][Next]_vars

(***************************************************************************)
(* Two sessions at the one product table, with fewer different requests.   *)
(***************************************************************************)
ShopSessions == {1, 2}

ShopInsertAmounts == {PyInt(10000), PyInt(2000)}

ShopPurchaseIds == {1, 7}

ShopPurchaseQuantities == {Digits(-1), Digits(1), Digits(10), Digits(11)}

InitShop ==
    /\ session = [s \in ShopSessions |-> NoSession]
    /\ inflight = [s \in ShopSessions |-> NoRequest]
    /\ inserted_since_reset = [s \in ShopSessions |-> 0]
    /\ products = sample_products
    /\ log = <<>>
    /\ response = Response("none", 0, 0, "")
    /\ requests = 0
    /\ cc_amount = 0
    /\ cc_result = EmptyDict
    /\ cc_pc = "idle"

ShopIndexRequest == \E s \in ShopSessions : index(s)

ShopInsertMoneyRequest ==
    \E s \in ShopSessions : \E amount \in ShopInsertAmounts :
        insert_money(s, amount)

ShopPurchaseRequest ==
    \E s \in ShopSessions : \E product_id \in ShopPurchaseIds :
        \E quantity \in ShopPurchaseQuantities :
            purchase(s, product_id, quantity)

ShopReturnChangeRequest == \E s \in ShopSessions : return_change(s)

NextShop ==
    \/ ShopIndexRequest
    \/ ShopInsertMoneyRequest
    \/ ShopPurchaseRequest
    \/ ShopReturnChangeRequest

SpecShop == InitShop /\ [][NextShop]_vars

(***************************************************************************)
(* The customer and the admin routes together, one session.                *)
(***************************************************************************)
AdminInsertAmounts == {PyInt(2000)}

AdminPurchaseIds == {1}

AdminPurchaseQuantities == {Digits(1), Digits(-1)}

\* the product ids the admin forms name: a product and no product
AdminProductIds == {1, 7}

\* the price and quantity fields the admin forms are submitted with
AdminForms ==
    {<<Digits(1000), Digits(3)>>, <<Digits(0), Digits(3)>>,
     <<Digits(1000), Digits(-1)>>, <<BadText, Digits(3)>>}

AdminInsertMoneyRequest ==
    \E s \in Sessions : \E amount \in AdminInsertAmounts :
        insert_money(s, amount)

AdminPurchaseRequest ==
    \E s \in Sessions : \E product_id \in AdminPurchaseIds :
        \E quantity \in AdminPurchaseQuantities :
            purchase(s, product_id, quantity)

UpdateProductRequest ==
    \E product_id \in AdminProductIds : \E form \in AdminForms :
        update_product(product_id, "tea", "drink", form[1], form[2])

AddProductRequest ==
    \E form \in AdminForms : add_product("tea", "drink", form[1], form[2])

DeleteProductRequest ==
    \E product_id \in AdminProductIds : delete_product(product_id)

NextAdmin ==
    \/ IndexRequest
    \/ AdminInsertMoneyRequest
    \/ AdminPurchaseRequest
    \/ ReturnChangeRequest
    \/ UpdateProductRequest
    \/ AddProductRequest
    \/ DeleteProductRequest

SpecAdmin == Init /\ [][NextAdmin]_vars

(***************************************************************************)
(* Two sessions whose purchase requests interleave.  A session sends its   *)
(* next request when its last one is answered; no admin request and no     *)
(* return_change, so current_transaction holds every purchase made.        *)
(***************************************************************************)
RacePurchaseQuantities == {Digits(1), Digits(10), Digits(11)}

RaceIndexRequest == \E s \in ShopSessions : is_idle(s) /\ index(s)

RaceInsertMoneyRequest ==
    \E s \in ShopSessions : \E amount \in ShopInsertAmounts :
        is_idle(s) /\ insert_money(s, amount)

PurchaseRead ==
    \E s \in ShopSessions : \E product_id \in ShopPurchaseIds :
        \E quantity \in RacePurchaseQuantities :
            purchase_read(s, product_id, quantity)

PurchaseCheck == \E s \in ShopSessions : purchase_check(s)

PurchaseWrite == \E s \in ShopSessions : purchase_write(s)

NextRace ==
    \/ RaceIndexRequest
    \/ RaceInsertMoneyRequest
    \/ PurchaseRead
    \/ PurchaseCheck
    \/ PurchaseWrite

SpecRace == InitShop /\ [][NextRace]_vars

(***************************************************************************)
(* The change calculator on its own: every amount up to MaxAmount.         *)
(***************************************************************************)
InitChange ==
    /\ session = [s \in Sessions |-> NoSession]
    /\ inflight = [s \in Sessions |-> NoRequest]
    /\ inserted_since_reset = [s \in Sessions |-> 0]
    /\ products = sample_products
    /\ log = <<>>
    /\ response = Response("none", 0, 0, "")
    /\ requests = 0
    /\ cc_amount \in 0..MaxAmount
    /\ cc_result = EmptyDict
    /\ cc_pc = "call"

CalculateChange ==
    /\ cc_pc = "call"
    /\ cc_result' = calculate_change(cc_amount)
    /\ cc_pc' = "done"
    /\ UNCHANGED <<session, products, log, response, requests, cc_amount,
                   inflight, inserted_since_reset>>

NextChange == CalculateChange

SpecChange == InitChange /\ [][NextChange]_vars

(***************************************************************************)
(* Properties of calculate_change (checked under SpecChange).              *)
(***************************************************************************)
RECURSIVE sum_breakdown(_, _)
sum_breakdown(breakdown, keys) ==
    IF keys = {} THEN 0
    ELSE LET d == CHOOSE x \in keys : TRUE
         IN  d * breakdown[d] + sum_breakdown(breakdown, keys \ {d})

\* sum(denomination * count)
breakdown_value(breakdown) == sum_breakdown(breakdown, DOMAIN breakdown)

RECURSIVE count_breakdown(_, _)
count_breakdown(breakdown, keys) ==
    IF keys = {} THEN 0
    ELSE LET d == CHOOSE x \in keys : TRUE
         IN  breakdown[d] + count_breakdown(breakdown, keys \ {d})

\* the number of notes and coins of a breakdown
breakdown_count(breakdown) == count_breakdown(breakdown, DOMAIN breakdown)

DenominationCents == {d.cents : d \in Range(NOTES \o COINS)}

\* an amount that is a sum of denominations: a multiple of 0.05
is_sum_of_denominations(amount) == amount >= 0 /\ amount % 5 = 0

\* no greedy breakdown of an amount up to MaxAmount has more pieces than this
CoinLimit == 15 + (MaxAmount \div 10000)

\* ReachableWith[k + 1]: the amounts up to MaxAmount that some multiset of at
\* most k notes and coins sums to
RECURSIVE reach_table(_)
reach_table(k) ==
    IF k = 0 THEN <<{0}>>
    ELSE LET t == reach_table(k - 1)
             last == t[k]
         IN  Append(t, last \cup
                        {x \in {a + d : a \in last, d \in DenominationCents} :
                            x <= MaxAmount})

ReachableWith == reach_table(CoinLimit)

\* n is the fewest number of notes and coins that sum to the amount
fewest_is(amount, n) ==
    /\ n \in 0..CoinLimit
    /\ amount \in ReachableWith[n + 1]
    /\ n = 0 \/ amount \notin ReachableWith[n]

\* C1: for every amount that is a non-negative multiple of 0.05, the
\* breakdown calculate_change returns sums to the amount (within 0.01).
C1_BreakdownSumsToAmount ==
    (cc_pc = "done" /\ is_sum_of_denominations(cc_amount))
        => Abs(breakdown_value(cc_result) - cc_amount) <= 1

C1_Witness ==
    /\ cc_pc = "done"
    /\ cc_amount = 9995
    /\ Cardinality(DOMAIN cc_result) >= 6
    /\ breakdown_value(cc_result) = 9995

\* C2 as stated: for every amount that is a non-negative multiple of 0.05,
\* no multiset of denominations with the same sum has fewer pieces than the
\* breakdown calculate_change returns.
C2_FewestPossible ==
    (cc_pc = "done" /\ is_sum_of_denominations(cc_amount))
        => fewest_is(cc_amount, breakdown_count(cc_result))

\* the amounts that leave 40 up to 45, or 90 up to 95, after the 100 notes:
\* the greedy 25 + 10 + 5 stands against 20 + 20
greedy_takes_25_10_5(amount) ==
    (amount % 10000) \in (4000..4499) \cup (9000..9499)

\* C2 amended: the breakdown has the fewest possible pieces, except for the
\* amounts that leave 40 up to (not including) 45, or 90 up to (not
\* including) 95, modulo 100, where it has exactly one piece more than the
\* fewest possible.
C2_FewestButForTwenties ==
    (cc_pc = "done" /\ is_sum_of_denominations(cc_amount))
        => fewest_is(cc_amount,
                     breakdown_count(cc_result)
                         - (IF greedy_takes_25_10_5(cc_amount) THEN 1 ELSE 0))

C2_Witness ==
    /\ cc_pc = "done"
    /\ cc_amount = 4000
    /\ cc_result = (2500 :> 1) @@ (1000 :> 1) @@ (500 :> 1)
    /\ fewest_is(4000, 2)

\* C3: calculate_change(0) is the empty breakdown, and no breakdown records
\* a denomination with a count below 1.
C3_NoZeroCounts ==
    cc_pc = "done" =>
        /\ cc_amount = 0 => cc_result = EmptyDict
        /\ \A d \in DOMAIN cc_result : cc_result[d] >= 1

C3_Witness ==
    /\ cc_pc = "done"
    /\ cc_amount = 0
    /\ DOMAIN cc_result = {}

(***************************************************************************)
(* Properties of the session ledger (checked under Spec).                  *)
(***************************************************************************)
\* the step just taken answered this request of session s without an error
answered(op, s) ==
    response'.op = op /\ response'.sid = s /\ response'.code = 200

Last(seq) == seq[Len(seq)]

\* C4: from a freshly initialised session, insert(50) and insert(20) give a
\* balance of 70; purchase(1, 1) at price 15 with stock >= 1 then gives a
\* balance of 55 and a stock of one less; return_change then computes the
\* breakdown {50: 1, 5: 1}.
C4_Scenario ==
    [][\A s \in DOMAIN session :
        LET before == session[s]
            after == session'[s]
        IN  /\ (/\ answered("insert_money", s)
                /\ before = new_session
                /\ response'.amount = 5000) => after.inserted_money = 5000
            /\ (/\ answered("insert_money", s)
                /\ before.inserted_money = 5000
                /\ response'.amount = 2000) => after.inserted_money = 7000
            /\ (/\ response'.op = "purchase" /\ response'.sid = s
                /\ response'.error # "ValueError"
                /\ response'.product_id = 1 /\ response'.quantity = 1
                /\ has_session(s)
                /\ before.inserted_money = 7000
                /\ products[1].price = 1500 /\ products[1].quantity >= 1)
                  => /\ response'.code = 200
                     /\ after.inserted_money = 5500
                     /\ products'[1].quantity = products[1].quantity - 1
            /\ (/\ response'.op = "return_change" /\ response'.sid = s
                /\ has_session(s)
                /\ before.inserted_money = 5500)
                  => /\ response'.code = 200
                     /\ response'.change_breakdown = (5000 :> 1) @@ (500 :> 1)
    ]_vars

C4_Witness ==
    /\ requests = 4
    /\ response.op = "return_change" /\ response.code = 200
    /\ response.change_breakdown = (5000 :> 1) @@ (500 :> 1)
    /\ products[1].quantity = 9
    /\ Len(log) = 1
    /\ log[1].change_amount = 5500
    /\ log[1].products_purchased = << <<1, "sando">> >>
    /\ session[response.sid].inserted_money = 0

\* C5 as stated: after every insert_money, inserted_money equals the sum of
\* count * denomination over the denomination counters.
C5_MoneyMatchesCounters ==
    (response.op = "insert_money" /\ response.code = 200)
        => session[response.sid].inserted_money
             = total_inserted_of(session[response.sid].denominations_inserted)

\* C6 as stated: inserting a configured denomination d adds d to
\* inserted_money and 1 to the counter of d and leaves the other counters
\* alone; the key made from the amount is the key the counter of d has.
C6_InsertCountsDenomination ==
    [][\A s \in DOMAIN session : \A d \in Range(NOTES \o COINS) :
        (answered("insert_money", s) /\ response'.amount = d.cents)
          => LET before == session[s]
                 after == session'[s]
             IN  /\ after.inserted_money = before.inserted_money + d.cents
                 /\ denom_key(d) = str(d)
                 /\ after.denominations_inserted =
                        [before.denominations_inserted EXCEPT ![str(d)] = @ + 1]
    ]_vars

\* C7: no product's quantity is ever below 0, whichever session purchases
\* whichever quantity: a purchase that succeeds asked for no more than the
\* stock.
C7_StockNeverNegative ==
    /\ \A product_id \in DOMAIN products : products[product_id].quantity >= 0
    /\ (response.op = "purchase" /\ response.code = 200)
          => LET stock_before ==
                     products[response.product_id].quantity + response.quantity
             IN  /\ stock_before >= response.quantity
                 /\ response.remaining_quantity
                      = products[response.product_id].quantity

C7_Witness ==
    /\ response.op = "purchase" /\ response.sid = 2
    /\ response.error = "InsufficientStock"
    /\ response.product_id = 1 /\ response.quantity = 1
    /\ products[1].quantity = 0
    /\ has_session(1)
    /\ Len(session[1].current_transaction) = 1
    /\ session[1].current_transaction[1].quantity = 10

\* C8: a purchase that succeeds from a balance >= 0 had a balance of at
\* least price * quantity and leaves a balance >= 0.
C8_PurchaseKeepsMoneyNonNegative ==
    [][\A s \in DOMAIN session :
        (answered("purchase", s) /\ session[s].inserted_money >= 0)
          => /\ session[s].inserted_money
                  >= products[response'.product_id].price * response'.quantity
             /\ session'[s].inserted_money >= 0
    ]_vars

C8_Witness ==
    /\ response.op = "purchase" /\ response.code = 200
    /\ response.product_id = 2 /\ response.quantity = 1
    /\ session[response.sid].inserted_money = 0
    /\ Last(session[response.sid].current_transaction).total = 2000

\* C9: after return_change the session has inserted_money 0, every
\* denomination counter 0 and no current purchase.
C9_ReturnChangeResets ==
    (response.op = "return_change" /\ response.code = 200)
        => LET after == session[response.sid]
           IN  /\ after.inserted_money = 0
               /\ \A k \in DOMAIN after.denominations_inserted :
                      after.denominations_inserted[k] = 0
               /\ DOMAIN after.denominations_inserted
                      = {str(d) : d \in Range(NOTES \o COINS)}
               /\ after.current_transaction = <<>>

C9_Witness ==
    /\ response.op = "return_change" /\ response.code = 200
    /\ response.amount = 100
    /\ Len(log) = 1
    /\ log[1].amount_inserted_coins = (str(PyFloat(50)) :> 2)
    /\ log[1].products_purchased # <<>>
    /\ session[response.sid] = new_session

\* C10: a purchase that fails (unknown product, quantity above the stock,
\* balance below price * quantity) answers with an error and changes
\* neither the session, the products nor the log; a quantity above the
\* stock gives the insufficient-stock error.
C10_FailedPurchaseChangesNothing ==
    [][\A s \in DOMAIN session :
        /\ (response'.op = "purchase" /\ response'.sid = s
                /\ response'.code # 200)
             => (response'.error # "" /\ UNCHANGED <<session, products, log>>)
        /\ (response'.op = "purchase" /\ response'.sid = s
                /\ response'.error # "ValueError")
          => LET product_id == response'.product_id
                 quantity == response'.quantity
                 unknown == product_id \notin DOMAIN products
                 above_stock == ~unknown
                                  /\ quantity > products[product_id].quantity
                 short == /\ ~unknown /\ ~above_stock /\ has_session(s)
                          /\ session[s].inserted_money
                                < products[product_id].price * quantity
             IN  /\ (unknown \/ above_stock \/ short)
                      => /\ response'.code = 400
                         /\ UNCHANGED <<session, products, log>>
                 /\ unknown => response'.error = "InvalidProduct"
                 /\ above_stock => response'.error = "InsufficientStock"
                 /\ short => response'.error = "InsufficientFunds"
    ]_vars

C10_Witness ==
    /\ response.op = "purchase" /\ response.code = 400
    /\ response.error = "InsufficientStock"
    /\ response.product_id = 1 /\ response.quantity = 11
    /\ products[1].quantity = 10
    /\ has_session(response.sid)
    /\ session[response.sid].inserted_money = 20000
    /\ session[response.sid].current_transaction = <<>>
    /\ log = <<>>

(***************************************************************************)
(* Properties of the transaction log.                                      *)
(***************************************************************************)
IsPrefix(short, long) ==
    /\ Len(short) <= Len(long)
    /\ \A i \in 1..Len(short) : long[i] = short[i]

\* C11: return_change appends exactly one log entry when the session holds
\* money, or holds none but has purchases (the entry then has an empty change
\* breakdown); with no money and no purchases it appends nothing and only
\* answers with the information message.
C11_ReturnChangeLogsOnce ==
    [][\A s \in DOMAIN session :
        answered("return_change", s)
          => LET money == session[s].inserted_money
                 purchases == session[s].current_transaction
             IN  /\ (money > 0 \/ (money = 0 /\ purchases # <<>>))
                      => /\ Len(log') = Len(log) + 1
                         /\ IsPrefix(log, log')
                 /\ (money = 0 /\ purchases # <<>>)
                      => /\ Last(log').change_returned_notes = EmptyDict
                         /\ Last(log').change_returned_coins = EmptyDict
                 /\ (money = 0 /\ purchases = <<>>)
                      => /\ log' = log
                         /\ response'.error = "info"
                         /\ response'.change_breakdown = EmptyDict
    ]_vars

C11_Witness ==
    /\ response.op = "return_change" /\ response.error = "info"
    /\ Len(log) = 1
    /\ log[1].change_amount = 0
    /\ log[1].change_returned_notes = EmptyDict
    /\ log[1].products_purchased = << <<1, "lays">> >>

\* C12: the log is append-only: in every step of every route the log before
\* is a prefix of the log after, and only return_change adds an entry, one
\* at a time.
C12_LogIsAppendOnly ==
    [][/\ IsPrefix(log, log')
       /\ log' # log => /\ response'.op = "return_change"
                        /\ Len(log') = Len(log) + 1
    ]_vars

C12_Witness ==
    /\ Len(log) = 2
    /\ log[1].id = 1 /\ log[1].change_amount = 2000
    /\ log[2].id = 2
    /\ response.op = "return_change"

\* C16 as stated: every stored product has quantity >= 0 and price > 0,
\* whatever the purchases and the admin requests were.
C16_ProductsStayValid ==
    \A product_id \in DOMAIN products :
        /\ products[product_id].quantity >= 0
        /\ products[product_id].price > 0

(***************************************************************************)
(* Properties of several sessions.                                         *)
(***************************************************************************)
\* C13: a request of one session (insert, purchase, return_change, index)
\* leaves inserted_money, the denomination counters and the purchases of
\* every other session as they were.
C13_SessionsAreSeparate ==
    [][\A t \in DOMAIN session :
        t # response'.sid => session'[t] = session[t]
    ]_vars

C13_Witness ==
    /\ response.op = "return_change" /\ response.sid = 1
    /\ response.amount = 2000
    /\ session[1] = new_session
    /\ has_session(2)
    /\ session[2].inserted_money = 8500
    /\ Len(session[2].current_transaction) = 1

\* the quantity of a product a session has purchased
RECURSIVE purchased_in(_, _)
purchased_in(current_transaction, product_id) ==
    IF current_transaction = <<>> THEN 0
    ELSE (IF current_transaction[1].product_id = product_id
          THEN current_transaction[1].quantity ELSE 0)
         + purchased_in(Tail(current_transaction), product_id)

RECURSIVE purchased_by(_, _)
purchased_by(sessions, product_id) ==
    IF sessions = {} THEN 0
    ELSE LET s == CHOOSE x \in sessions : TRUE
         IN  (IF has_session(s)
              THEN purchased_in(session[s].current_transaction, product_id)
              ELSE 0)
             + purchased_by(sessions \ {s}, product_id)

\* the quantity of a product all sessions have purchased
purchased(product_id) == purchased_by(DOMAIN session, product_id)

\* C14 as stated: when the purchase requests of the sessions interleave
\* step by step, the quantity purchased of a product never exceeds its
\* initial stock, and the stored quantity is the initial stock minus the
\* quantity purchased.
C14_NoOversell ==
    \A product_id \in DOMAIN products :
        /\ purchased(product_id) <= sample_products[product_id].quantity
        /\ products[product_id].quantity
             = sample_products[product_id].quantity - purchased(product_id)

(***************************************************************************)
(* Properties of the amounts.                                              *)
(***************************************************************************)
\* the sum of the line totals of the purchases
RECURSIVE sum_totals(_)
sum_totals(current_transaction) ==
    IF current_transaction = <<>> THEN 0
    ELSE current_transaction[1].total + sum_totals(Tail(current_transaction))

\* C15 as stated: inserted_money of every session is never negative.
C15_MoneyNeverNegative ==
    \A s \in DOMAIN session :
        has_session(s) => session[s].inserted_money >= 0

\* C17: in every state, what a session inserted since its last reset is its
\* inserted_money plus the line totals of its current purchases.
C17_MoneyIsConserved ==
    \A s \in DOMAIN session :
        has_session(s)
          => inserted_since_reset[s]
               = session[s].inserted_money
                   + sum_totals(session[s].current_transaction)

C17_Witness ==
    /\ has_session(1)
    /\ inserted_since_reset[1] = 12000
    /\ session[1].inserted_money = 8500
    /\ Len(session[1].current_transaction) = 2
    /\ sum_totals(session[1].current_transaction) = 3500

\* C18 as stated: the entry return_change writes has total_amount equal to
\* what the session inserted since its last reset, which is its
\* change_amount plus the line totals of the purchases it records, and its
\* change_amount is the inserted_money held before the reset.
C18_LogEntryIsConsistent ==
    [][\A s \in DOMAIN session :
        (answered("return_change", s) /\ log' # log)
          => LET entry == Last(log')
             IN  /\ entry.total_amount = inserted_since_reset[s]
                 /\ entry.total_amount
                      = entry.change_amount
                          + sum_totals(session[s].current_transaction)
                 /\ entry.change_amount = session[s].inserted_money
    ]_vars

\* C19 as stated: a purchase that succeeds, whatever its quantity, raises
\* neither the inserted_money of the session nor the quantity of the
\* product.
C19_PurchaseIsMonotone ==
    [][\A s \in DOMAIN session :
        answered("purchase", s)
          => /\ session'[s].inserted_money <= session[s].inserted_money
             /\ products'[response'.product_id].quantity
                  <= products[response'.product_id].quantity
    ]_vars

====
